---- MODULE Spec2Model ----
(***************************************************************************)
(* The xv6 user program stat (user/stat.c): main checks argc, opens        *)
(* argv[1] read-only, calls fstat on the returned descriptor without       *)
(* looking at either result, prints the six fields of struct stat and      *)
(* calls exit().  Several invocations (processes) run against one          *)
(* filesystem under any interleaving of their steps.                       *)
(***************************************************************************)
EXTENDS Integers, Sequences, FiniteSets, TLC

(* ------------------------------ bounds --------------------------------- *)

\* Largest number of path arguments given to one invocation.
MaxArgs == 2

\* The invocations (processes) running the program.
Procs == {1, 2}

(* --------------------------- host filesystem --------------------------- *)

\* A path that names nothing resolves to no inode: type 0, an unallocated one.
NoEntry ==
  [type |-> 0, dev |-> 0, ino |-> 0, nlink |-> 0, size |-> 0, checksum |-> 0]

NoPath == "nopath"
Console == "console"

\* The names an invocation may be given; "ghost" names no entry.
Paths == {"notes.txt", "dir", "ghost"}

\* The entries of the filesystem the invocations run against.
InitFs ==
  [p \in Paths |->
     CASE p = "notes.txt" ->
            [type |-> 2, dev |-> 1, ino |-> 17, nlink |-> 1, size |-> 42,
             checksum |-> 6699]
       [] p = "dir" ->
            [type |-> 1, dev |-> 1, ino |-> 1, nlink |-> 1, size |-> 512,
             checksum |-> 0]
       [] OTHER -> NoEntry]

\* What an entry just created by open with O_CREATE looks like.
NewFile ==
  [type |-> 2, dev |-> 1, ino |-> 18, nlink |-> 1, size |-> 0, checksum |-> 0]

\* Contents the stack slot of `struct stat st` may hold before fstat writes
\* it: the variable is declared without an initializer.
Indeterminate ==
  { [type |-> 0, dev |-> 0, ino |-> 0, nlink |-> 0, size |-> 0, checksum |-> 0],
    [type |-> -3, dev |-> 7, ino |-> 40, nlink |-> 0, size |-> 255,
     checksum |-> -1] }

Exists(f, path) == path \in DOMAIN f /\ f[path].type # 0

\* Lowest descriptor not in use in a process's open-file table.
RECURSIVE FreeFd(_, _)
FreeFd(ofile, n) == IF n \in DOMAIN ofile THEN FreeFd(ofile, n + 1) ELSE n

\* open(path, mode): -1 when the path names no entry (and mode does not ask
\* to create one), otherwise the lowest free descriptor.
sys_open(f, ofile, path, mode) ==
  IF Exists(f, path) \/ (mode = "O_CREATE" /\ path \in Paths)
    THEN FreeFd(ofile, 0)
    ELSE -1

\* The filesystem after open(path, mode): only O_CREATE adds an entry.
sys_open_fs(f, path, mode) ==
  IF mode = "O_CREATE" /\ path \in Paths /\ ~Exists(f, path)
    THEN [f EXCEPT ![path] = NewFile]
    ELSE f

\* fstat(fd, &st): 0 and the entry's record for an open file descriptor, -1
\* and st left as it was for anything else.
sys_fstat_ok(f, ofile, fd) ==
  fd \in DOMAIN ofile /\ ofile[fd] # Console /\ Exists(f, ofile[fd])

sys_fstat(f, ofile, fd, st) ==
  IF sys_fstat_ok(f, ofile, fd) THEN f[ofile[fd]] ELSE st

\* exit(): the kernel closes every descriptor of the process.
sys_exit(ofile) == << >>

(* ------------------------------- printf -------------------------------- *)

Digits == <<"0", "1", "2", "3", "4", "5", "6", "7", "8", "9",
            "a", "b", "c", "d", "e", "f">>

\* An unsigned int is held as two 16-bit halves, hi * Half + lo.
Half == 65536

Lo(xx) == xx % Half

Hi(xx) == (xx \div Half) % Half

\* do{ buf[i++] = digits[x % base]; }while((x /= base) != 0); then the
\* buffer written backwards: the digits of the unsigned x = hi * Half + lo,
\* most significant first.
RECURSIVE udigits(_, _, _)
udigits(hi, lo, base) ==
  LET t == (hi % base) * Half + lo
  IN IF hi = 0 /\ lo < base THEN <<Digits[lo + 1]>>
     ELSE udigits(hi \div base, t \div base, base) \o <<Digits[(t % base) + 1]>>

\* printint(fd, xx, base, sgn): xx is an int; with sgn a negative xx prints
\* as "-" and its magnitude, without sgn xx is read as an unsigned int.
printint(xx, base, sgn) ==
  IF sgn /\ xx < 0 THEN <<"-">> \o udigits(Hi(-xx), Lo(-xx), base)
  ELSE udigits(Hi(xx), Lo(xx), base)

\* printf(fd, fmt, arg) for a format with at most one conversion: the
\* characters of fmt, with %d and %x replaced by the argument's digits.
RECURSIVE printf(_, _)
printf(fmt, arg) ==
  IF fmt = << >> THEN << >>
  ELSE IF Head(fmt) = "%" /\ Len(fmt) >= 2
    THEN (CASE fmt[2] = "d" -> printint(arg, 10, TRUE)
            [] fmt[2] = "x" -> printint(arg, 16, FALSE)
            [] OTHER -> <<"%", fmt[2]>>)
         \o printf(SubSeq(fmt, 3, Len(fmt)), arg)
    ELSE <<Head(fmt)>> \o printf(Tail(fmt), arg)

(* ------------------------- the program's text -------------------------- *)

\* The format strings of main, character by character.
UsageFmt == <<"E", "n", "t", "e", "r", " ", "a", "t", " ",
              "p", "a", "t", "h", "n", "a", "m", "e", "\n">>
TypeFmt == <<"t", "y", "p", "e", ":", " ", "%", "d", "\n">>
DevFmt == <<"d", "e", "v", ":", " ", "%", "d", "\n">>
InoFmt == <<"i", "n", "o", ":", " ", "%", "d", "\n">>
NlinkFmt == <<"n", "l", "i", "n", "k", ":", " ", "%", "d", "\n">>
SizeFmt == <<"s", "i", "z", "e", ":", " ", "%", "d", "\n">>
\* Variant: the checksum printed with %d.
ChecksumFmtDecimal ==
  <<"c", "h", "e", "c", "k", "s", "u", "m", ":", " ", "%", "d", "\n">>

ChecksumFmt == <<"c", "h", "e", "c", "k", "s", "u", "m", ":", " ", "%", "x", "\n">>

\* The second argument of open in main: 0, read-only.
OpenMode == "O_RDONLY"

(* -------------------------------- state -------------------------------- *)

VARIABLES
  proc,     \* proc[p]: the state of invocation p (see InitProc)
  fs,       \* the filesystem: path -> entry record or NoEntry
  overlap   \* history: some invocation took a step while another was running

vars == <<proc, fs, overlap>>

\* The paths given after the first one.
ExtraPaths == {"dir", "ghost"}

\* The argument lists an invocation may be started with (argv[1..]): none,
\* or a first path followed by up to MaxArgs - 1 further ones.
ArgLists ==
  {<< >>} \cup
  UNION { { a \in [1..n -> Paths] : \A i \in 2..n : a[i] \in ExtraPaths } :
          n \in 1..MaxArgs }

\* An invocation before its first step: descriptors 0, 1, 2 are the console,
\* fd is not yet assigned (it is written before it is first read), st holds
\* whatever the stack held.
InitProc(args, garbage) ==
  [pc |-> "start", args |-> args, fd |-> -1, st |-> garbage, st0 |-> garbage,
   out |-> << >>, ofile |-> [d \in {0, 1, 2} |-> Console],
   path |-> NoPath, mode |-> "none", openres |-> "none", queryres |-> "none",
   nopen |-> 0, nquery |-> 0, nexit |-> 0, status |-> "running"]

Init ==
  /\ proc \in [Procs -> { InitProc(a, g) : a \in ArgLists, g \in Indeterminate }]
  /\ fs = InitFs
  /\ overlap = FALSE

argc(s) == Len(s.args) + 1

\* argv[i] for i >= 1; argv[argc] is the null pointer.
argv(s, i) == IF i <= Len(s.args) THEN s.args[i] ELSE NoPath

(* ------------------------- the steps of main --------------------------- *)

\* if(argc < 2){ printf(1, "Enter at pathname\n"); ...
usage(s) ==
  [s EXCEPT !.out = s.out \o printf(UsageFmt, 0), !.pc = "usage_exit"]

\* exit(): the process ends, whatever it was doing; no status is passed.
exit(s) ==
  [s EXCEPT !.ofile = sys_exit(s.ofile), !.pc = "done",
            !.nexit = s.nexit + 1, !.status = "nostatus"]

\* fd = open(path, mode) in local state s: the descriptor, or -1, is stored
\* in fd and not examined.
open_call(s, f, path, mode) ==
  LET r == sys_open(f, s.ofile, path, mode)
  IN [s EXCEPT !.fd = r,
               !.ofile = IF r >= 0 THEN (r :> path) @@ s.ofile ELSE s.ofile,
               !.path = path, !.mode = mode,
               !.openres = IF r >= 0 THEN "ok" ELSE "fail",
               !.nopen = s.nopen + 1,
               !.pc = "fstat"]

\* Variant: the path is opened a second time, the first descriptor dropped.
open_twice(s, f) ==
  open_call(open_call(s, f, argv(s, 1), OpenMode), f, argv(s, 1), OpenMode)

\* Variant: a failed open is tried once more.
open_retry(s, f) ==
  LET r == open_call(s, f, argv(s, 1), OpenMode)
  IN IF r.openres = "fail" /\ s.nopen = 0 THEN [r EXCEPT !.pc = "start"] ELSE r

\* Variant: the last argument is opened instead of the first.
open_last(s, f) == open_call(s, f, argv(s, Len(s.args)), OpenMode)

\* fd = open(argv[1], 0);
open(s, f) == open_call(s, f, argv(s, 1), OpenMode)

\* Variant: st is printed without fstat having been called.
fstat_skipped(s, f) == [s EXCEPT !.pc = "print_type"]

\* struct stat st; fstat(fd, &st);  the return value is discarded.
fstat(s, f) ==
  [s EXCEPT !.st = sys_fstat(f, s.ofile, s.fd, s.st),
            !.queryres = IF sys_fstat_ok(f, s.ofile, s.fd) THEN "ok" ELSE "fail",
            !.nquery = s.nquery + 1,
            !.pc = "print_type"]

print_type(s) ==
  [s EXCEPT !.out = s.out \o printf(TypeFmt, s.st.type), !.pc = "print_dev"]

print_dev(s) ==
  [s EXCEPT !.out = s.out \o printf(DevFmt, s.st.dev), !.pc = "print_ino"]

print_ino(s) ==
  [s EXCEPT !.out = s.out \o printf(InoFmt, s.st.ino), !.pc = "print_nlink"]

print_nlink(s) ==
  [s EXCEPT !.out = s.out \o printf(NlinkFmt, s.st.nlink), !.pc = "print_size"]

print_size(s) ==
  [s EXCEPT !.out = s.out \o printf(SizeFmt, s.st.size), !.pc = "print_checksum"]

print_checksum(s) ==
  [s EXCEPT !.out = s.out \o printf(ChecksumFmt, s.st.checksum), !.pc = "exit"]

\* One step of main from the local state s, against the filesystem f.
main(s, f) ==
  CASE s.pc = "start" /\ argc(s) < 2 -> usage(s)
    [] s.pc = "start" /\ argc(s) >= 2 -> open(s, f)
    [] s.pc = "usage_exit" -> exit(s)
    [] s.pc = "fstat" -> fstat(s, f)
    [] s.pc = "print_type" -> print_type(s)
    [] s.pc = "print_dev" -> print_dev(s)
    [] s.pc = "print_ino" -> print_ino(s)
    [] s.pc = "print_nlink" -> print_nlink(s)
    [] s.pc = "print_size" -> print_size(s)
    [] s.pc = "print_checksum" -> print_checksum(s)
    [] s.pc = "exit" -> exit(s)
    [] OTHER -> s

\* A whole run of main, alone, from local state s against filesystem f.
RECURSIVE RunAlone(_, _)
RunAlone(s, f) == IF s.pc = "done" THEN s ELSE RunAlone(main(s, f), f)

(* ------------------------------- actions ------------------------------- *)

Running(q) == proc[q].pc \notin {"start", "done"}

\* Invocation p moves to local state s; the filesystem becomes f.
Step(p, s, f) ==
  /\ proc' = [proc EXCEPT ![p] = s]
  /\ fs' = f
  /\ overlap' = (overlap \/ \E q \in Procs \ {p} : Running(q))

Usage(p) ==
  /\ proc[p].pc = "start"
  /\ argc(proc[p]) < 2
  /\ Step(p, usage(proc[p]), fs)

\* Variant: the exit() after the usage message is missing and main goes on.
ExitUsageMissing(p) ==
  /\ proc[p].pc = "usage_exit"
  /\ Step(p, open(proc[p], fs), fs)

ExitUsage(p) ==
  /\ proc[p].pc = "usage_exit"
  /\ Step(p, exit(proc[p]), fs)

Open(p) ==
  /\ proc[p].pc = "start"
  /\ argc(proc[p]) >= 2
  /\ Step(p, open(proc[p], fs), sys_open_fs(fs, argv(proc[p], 1), OpenMode))

Fstat(p) ==
  /\ proc[p].pc = "fstat"
  /\ Step(p, fstat(proc[p], fs), fs)

PrintType(p) ==
  /\ proc[p].pc = "print_type"
  /\ Step(p, print_type(proc[p]), fs)

PrintDev(p) ==
  /\ proc[p].pc = "print_dev"
  /\ Step(p, print_dev(proc[p]), fs)

PrintIno(p) ==
  /\ proc[p].pc = "print_ino"
  /\ Step(p, print_ino(proc[p]), fs)

PrintNlink(p) ==
  /\ proc[p].pc = "print_nlink"
  /\ Step(p, print_nlink(proc[p]), fs)

PrintSize(p) ==
  /\ proc[p].pc = "print_size"
  /\ Step(p, print_size(proc[p]), fs)

PrintChecksum(p) ==
  /\ proc[p].pc = "print_checksum"
  /\ Step(p, print_checksum(proc[p]), fs)

Exit(p) ==
  /\ proc[p].pc = "exit"
  /\ Step(p, exit(proc[p]), fs)

Run(p) ==
  \/ Usage(p)
  \/ ExitUsage(p)
  \/ Open(p)
  \/ Fstat(p)
  \/ PrintType(p)
  \/ PrintDev(p)
  \/ PrintIno(p)
  \/ PrintNlink(p)
  \/ PrintSize(p)
  \/ PrintChecksum(p)
  \/ Exit(p)

Next == \E p \in Procs : Run(p)

Spec == Init /\ [][Next]_vars

\* The xv6 scheduler runs every runnable process again and again, and none
\* of the calls main makes blocks: a process that can step does step.
FairSpec == Spec /\ \A p \in Procs : WF_vars(Run(p))

(* ----------------------- reading standard output ----------------------- *)

\* Index of the first newline of text, or Len(text) + 1 when it has none.
FirstNewline(text) ==
  CHOOSE i \in 1..(Len(text) + 1) :
    /\ i = Len(text) + 1 \/ text[i] = "\n"
    /\ \A j \in 1..(i - 1) : text[j] # "\n"

\* The lines of text, each without its newline.
RECURSIVE Lines(_)
Lines(text) ==
  IF text = << >> THEN << >>
  ELSE LET i == FirstNewline(text)
       IN <<SubSeq(text, 1, i - 1)>> \o Lines(SubSeq(text, i + 1, Len(text)))

\* Every line of text is ended by a newline.
WholeLines(text) == text = << >> \/ text[Len(text)] = "\n"

HasPrefix(line, lab) == Len(line) >= Len(lab) /\ SubSeq(line, 1, Len(lab)) = lab

\* The labels of the report, in the order of the report.
FieldNames == <<"type", "dev", "ino", "nlink", "size", "checksum">>

Labels ==
  << <<"t", "y", "p", "e", ":">>,
     <<"d", "e", "v", ":">>,
     <<"i", "n", "o", ":">>,
     <<"n", "l", "i", "n", "k", ":">>,
     <<"s", "i", "z", "e", ":">>,
     <<"c", "h", "e", "c", "k", "s", "u", "m", ":">> >>

\* The base each field is to be printed in: checksum in hexadecimal.
FieldBase == <<10, 10, 10, 10, 10, 16>>

IsReportLine(line) == \E i \in 1..Len(Labels) : HasPrefix(line, Labels[i])

\* The report lines among the lines of text.
ReportLines(text) == SelectSeq(Lines(text), IsReportLine)

UsageLine == <<"E", "n", "t", "e", "r", " ", "a", "t", " ",
               "p", "a", "t", "h", "n", "a", "m", "e">>

\* The value of digit character c, or -1 when c is no digit.
DigitValue(c) ==
  IF \E i \in 1..Len(Digits) : Digits[i] = c
    THEN (CHOOSE i \in 1..Len(Digits) : Digits[i] = c) - 1
    ELSE -1

\* The number the digit string cs denotes in the given base, or -1 when cs
\* is empty or holds anything but digits of that base (a sign, a prefix).
RECURSIVE ParseFrom(_, _, _)
ParseFrom(cs, base, acc) ==
  IF cs = << >> THEN acc
  ELSE LET d == DigitValue(Head(cs))
       IN IF d < 0 \/ d >= base THEN -1
          ELSE ParseFrom(Tail(cs), base, acc * base + d)

ParseNumber(cs, base) == IF cs = << >> THEN -1 ELSE ParseFrom(cs, base, 0)

\* Line number i of a report shows value v: the label, a blank, and the
\* digits of v in the field's base, nothing else.
ShowsField(line, i, v) ==
  /\ HasPrefix(line, Labels[i] \o <<" ">>)
  /\ ParseNumber(SubSeq(line, Len(Labels[i]) + 2, Len(line)), FieldBase[i]) = v

\* text is exactly the six-line report of record rec.
IsReportOf(text, rec) ==
  /\ WholeLines(text)
  /\ Len(Lines(text)) = 6
  /\ \A i \in 1..6 : ShowsField(Lines(text)[i], i, rec[FieldNames[i]])

Done(p) == proc[p].pc = "done"

(* ------------------------------- claims -------------------------------- *)

\* C1: whenever open failed, none of the report lines type:, dev:, ino:,
\* nlink:, size:, checksum: has been written to standard output.
C1_NoReportAfterFailedOpen ==
  \A p \in Procs :
    proc[p].openres = "fail" => ReportLines(proc[p].out) = << >>

\* C2: fstat is called only with a descriptor a successful open returned.
C2_QueryOnlyAfterSuccessfulOpen ==
  \A p \in Procs : proc[p].nquery > 0 => proc[p].openres = "ok"

\* C3: every report line printed comes from a record that a successful
\* fstat filled in; after a failed fstat nothing of st is printed.
C3_ReportOnlyFromPopulatedRecord ==
  \A p \in Procs :
    ReportLines(proc[p].out) # << >> => proc[p].queryres = "ok"

C5_UsageOnly ==
  \A p \in Procs :
    argc(proc[p]) < 2 =>
      /\ proc[p].nopen = 0 /\ proc[p].nquery = 0
      /\ proc[p].openres = "none" /\ proc[p].queryres = "none"
      /\ ReportLines(proc[p].out) = << >>
      /\ proc[p].pc \in {"start", "usage_exit", "done"}
      /\ proc[p].pc = "start" => proc[p].out = << >>
      /\ proc[p].pc # "start" =>
           /\ WholeLines(proc[p].out)
           /\ Lines(proc[p].out) = <<UsageLine>>

\* An invocation without a path argument has terminated.
C5_Witness ==
  \E p \in Procs : argc(proc[p]) < 2 /\ Done(p) /\ proc[p].out # << >>

\* C6: when open and fstat succeeded, the finished run has printed exactly
\* six lines, type, dev, ino, nlink, size, checksum in this order, each its
\* label followed by the value of that field of the record fstat returned,
\* which is the entry's record (size the entry's length): decimal for type
\* to size, unprefixed hexadecimal for checksum.
C6_SixLineReport ==
  \A p \in Procs :
    (Done(p) /\ proc[p].openres = "ok" /\ proc[p].queryres = "ok") =>
      /\ IsReportOf(proc[p].out, proc[p].st)
      /\ proc[p].st = InitFs[argv(proc[p], 1)]
      /\ ShowsField(Lines(proc[p].out)[5], 5, InitFs[argv(proc[p], 1)].size)

\* A run on the regular file, whose checksum has hexadecimal letters, is
\* finished.
C6_Witness ==
  \E p \in Procs :
    /\ Done(p) /\ proc[p].queryres = "ok"
    /\ argv(proc[p], 1) = "notes.txt"

\* C7: two successive runs on the same path, the filesystem not modified in
\* between, print the same output, and a run leaves the filesystem as it was.
C7_SuccessiveRunsAgree ==
  /\ fs = InitFs
  /\ \A p, q \in Procs :
       (/\ ~overlap /\ Done(p) /\ Done(q)
        /\ argc(proc[p]) >= 2 /\ argc(proc[q]) >= 2
        /\ argv(proc[p], 1) = argv(proc[q], 1))
       => proc[p].out = proc[q].out

\* C8: two invocations that ran concurrently against the same existing,
\* unmodified file have each printed the same report as the other, which is
\* the report of a run executed alone.
C8_ConcurrentRunsAgree ==
  \A p, q \in Procs :
    (/\ p # q /\ overlap /\ Done(p) /\ Done(q)
     /\ argc(proc[p]) >= 2 /\ argc(proc[q]) >= 2
     /\ argv(proc[p], 1) = argv(proc[q], 1)
     /\ Exists(InitFs, argv(proc[p], 1)))
    => /\ proc[p].out = proc[q].out
       /\ \A g \in Indeterminate :
            proc[p].out = RunAlone(InitProc(<<argv(proc[p], 1)>>, g), InitFs).out

\* Two invocations on the same existing file overlapped and are finished.
C8_Witness ==
  /\ overlap
  /\ \A p \in Procs : Done(p) /\ argv(proc[p], 1) = "notes.txt"
  /\ proc[1].st0 # proc[2].st0

\* C9: every invocation eventually terminates, through exit() without a
\* status; it calls open at most once, fstat at most once and exit once, and
\* takes no step after exit.
C9_LinearRunTerminates ==
  /\ <>(\A p \in Procs : Done(p))
  /\ [](\A p \in Procs :
          /\ proc[p].nopen <= 1 /\ proc[p].nquery <= 1 /\ proc[p].nexit <= 1
          /\ Done(p) <=> proc[p].nexit = 1
          /\ Done(p) <=> proc[p].status = "nostatus")
  /\ [][\A p \in Procs : Done(p) => proc'[p] = proc[p]]_vars

\* All invocations have terminated, one after a failed open, one after the
\* usage message.
C9_Witness ==
  /\ \A p \in Procs : Done(p)
  /\ \E p \in Procs : proc[p].openres = "fail"
  /\ \E p \in Procs : argc(proc[p]) < 2

\* C10: with more than one path argument the run is no usage error: only
\* argv[1] is opened, read-only, and the output is that of the run given
\* argv[1] alone.
C10_OnlyFirstArgument ==
  \A p \in Procs :
    (Done(p) /\ argc(proc[p]) > 2) =>
      /\ proc[p].nopen = 1
      /\ proc[p].path = proc[p].args[1]
      /\ proc[p].mode = "O_RDONLY"
      /\ Lines(proc[p].out) # <<UsageLine>>
      /\ proc[p].out =
           RunAlone(InitProc(<<proc[p].args[1]>>, proc[p].st0), InitFs).out

\* A run given two different paths is finished.
C10_Witness ==
  \E p \in Procs :
    /\ Done(p) /\ argc(proc[p]) > 2
    /\ proc[p].args[1] # proc[p].args[Len(proc[p].args)]
    /\ proc[p].openres = "ok"

====
